---- MODULE Spec2Model ----
(***************************************************************************)
(* A model of the caption segmentation and timing engine of the Captions   *)
(* repository: the four generate_captions variants (src/caption.py,        *)
(* src/api/caption_whisper.py, src/api/caption.py,                         *)
(* src/api/caption_openai.py) and the helpers chunk_audio,                 *)
(* fallback_segment_text and _dedup.                                       *)
(*                                                                         *)
(* Time is counted in milliseconds.  A value the code computes by a        *)
(* division (per_word = dur / len(words)) is kept exact as a numerator     *)
(* over a denominator; round(x, 2) maps it to a multiple of 10 ms.         *)
(* Text is a sequence of one-character strings.                            *)
(***************************************************************************)
EXTENDS Integers, Sequences, FiniteSets, TLC

VARIABLES
    variant,         \* which generate_captions runs: "cli", "whisper", "api", "openai"
    segments,        \* result["segments"] of the local Whisper model (input)
    audio_ms,        \* len(audio) of the track handed to the OpenAI variant (input)
    responses,       \* the backend's answer for each chunk, in chunk order (input)
    pc,              \* position of the run
    si,              \* index of the segment being split (1-based)
    wi,              \* the loop variable i: offset of the current group in words
    micro_segments,  \* the cue list of the local variants
    ci,              \* index of the chunk being processed (1-based)
    chunk,           \* the words of the group being accumulated
    chunk_start,     \* start of that group, NoTime while the group is empty
    segments_all,    \* the cue list of the OpenAI variant
    last_text,       \* text of the last emitted cue
    offset,          \* cumulative offset added to a chunk's timestamps
    chunk_files,     \* indices of the chunk temp files that exist
    arg,             \* argument of the helper under check
    ret,             \* its result, NoRet before the call
    _client,         \* the module-level _client of src/api/caption_openai.py
    parked,          \* the locals of a second run of generate_captions while the first one steps
    requests,        \* the requests to /generate and /upload of src/api/main.py
    srt_files,       \* the .srt files of the outputs directories, by path
    video_files,     \* the _captioned.mp4 files of the outputs directories, by path
    event_loop,      \* the request whose `async def` handler runs on the event loop, 0 if none
    cwd              \* the directory the server was started in

vars == <<variant, segments, audio_ms, responses, pc, si, wi, micro_segments,
          ci, chunk, chunk_start, segments_all, last_text, offset, chunk_files,
          arg, ret, _client, parked, requests, srt_files, video_files, event_loop, cwd>>

localVars == <<si, wi, micro_segments>>
openaiVars == <<ci, chunk, chunk_start, segments_all, last_text, offset, chunk_files>>
inputVars == <<variant, segments, audio_ms, responses>>
helperVars == <<arg, ret>>
serverVars == <<requests, srt_files, video_files, event_loop, cwd>>
moduleVars == <<_client, parked, serverVars>>

NoTime == -1
NoRet == "none"
\* _client = None
NoClient == "None"
\* No second run
NoRun == [pc |-> "none"]

---------------------------------------------------------------------------
(* Bounds of the model *)

\* segments of a Whisper answer, words of a segment
MaxSegs == 2
MaxWords == 5
\* words of the segment whose text carries punctuation
MaxTextWords == 7
\* cues of a list given to the closing pass
MaxCues == 3
\* words of a text given to fallback_segment_text
MaxFallbackWords == 8
\* characters of the texts given to _dedup
MaxStrLen == 3
\* length of the audio and limit given to chunk_audio, in ms
MaxAudio == 12
MaxLimit == 6
\* words of the first chunk and new words of the second chunk at a seam
MaxSeamWords == 4
MaxNewWords == 2

---------------------------------------------------------------------------
(* Program constants *)

GAP == 80
CHUNK_LEN == 3
PAD_CLI == 300
MIN_CLI == 300
PAD_API == 250
MIN_API == 250
CENTI == 10
MAX_MS == 540000
WORDS_PER_SEGMENT == 7
GROUP_WORDS == 3
SMOOTH_GAP == 80
LAST_PAD == 400

---------------------------------------------------------------------------
(* Characters and text *)

LowerChars == <<"a","b","c","d","e","f","g","h","i","j","k","l","m",
                "n","o","p","q","r","s","t","u","v","w","x","y","z">>
UpperChars == <<"A","B","C","D","E","F","G","H","I","J","K","L","M",
                "N","O","P","Q","R","S","T","U","V","W","X","Y","Z">>
Digits == {"0","1","2","3","4","5","6","7","8","9"}

Range(s) == {s[i] : i \in 1..Len(s)}

UpperSet == Range(UpperChars)
LowerOf == [c \in UpperSet |-> LowerChars[CHOOSE i \in 1..Len(UpperChars) : UpperChars[i] = c]]

\* str.lower() on one character
Lower(c) == IF c \in UpperSet THEN LowerOf[c] ELSE c

LowerStr(s) == [i \in 1..Len(s) |-> Lower(s[i])]

\* \s of the regular expressions and of str.strip()
IsSpace(c) == c \in {" ", "\t", "\n"}

\* \w of the regular expressions
WordChars == Range(LowerChars) \cup UpperSet \cup Digits \cup {"_"}
IsWordChar(c) == c \in WordChars

SetMin(S) == CHOOSE x \in S : \A y \in S : x <= y
SetMax(S) == CHOOSE x \in S : \A y \in S : x >= y

RECURSIVE FirstNonSpace(_, _)
FirstNonSpace(s, p) == IF p > Len(s) \/ ~IsSpace(s[p]) THEN p ELSE FirstNonSpace(s, p + 1)

RECURSIVE LastNonSpace(_, _)
LastNonSpace(s, p) == IF p < 1 \/ ~IsSpace(s[p]) THEN p ELSE LastNonSpace(s, p - 1)

\* str.strip()
Strip(s) == SubSeq(s, FirstNonSpace(s, 1), LastNonSpace(s, Len(s)))

\* re.findall(r"\S+", s), also str.split(): the maximal runs of non-space characters
RECURSIVE FindWords(_, _, _)
FindWords(s, p, cur) ==
    IF p > Len(s)
    THEN IF cur = <<>> THEN <<>> ELSE <<cur>>
    ELSE IF IsSpace(s[p])
         THEN (IF cur = <<>> THEN <<>> ELSE <<cur>>) \o FindWords(s, p + 1, <<>>)
         ELSE FindWords(s, p + 1, Append(cur, s[p]))

Split(s) == FindWords(s, 1, <<>>)

\* " ".join(words)
RECURSIVE Join(_)
Join(ws) ==
    IF ws = <<>> THEN <<>>
    ELSE IF Len(ws) = 1 THEN ws[1]
    ELSE ws[1] \o <<" ">> \o Join(Tail(ws))

\* words[i:i + n] with a 0-based i
Slice(ws, i, n) == SubSeq(ws, i + 1, IF i + n < Len(ws) THEN i + n ELSE Len(ws))

PUNCT_CLI == {",", "\"", "LDQUO", "RDQUO", "LSQUO", "RSQUO", ":", ";", "?", "!", "-"}
PUNCT_WHISPER == {",", "\"", "'", "?", ":", ";", "!", "-"}
PUNCT_API == {",", "\"", ":", ";", "?", "!", "-"}

\* re.sub(r"[...]", "", text)
RemoveChars(text, set) == SelectSeq(text, LAMBDA c : c \notin set)

Chars(str) ==
    CASE str = "AI" -> <<"A","I">>
      [] str = "work" -> <<"w","o","r","k">>
      [] str = "money" -> <<"m","o","n","e","y">>
      [] str = "content" -> <<"c","o","n","t","e","n","t">>
      [] str = "effort" -> <<"e","f","f","o","r","t">>
      [] str = "manual" -> <<"m","a","n","u","a","l">>
      [] str = "shorts" -> <<"s","h","o","r","t","s">>
      [] str = "video" -> <<"v","i","d","e","o">>
      [] str = "build" -> <<"b","u","i","l","d">>
      [] str = "create" -> <<"c","r","e","a","t","e">>
      [] str = "is" -> <<"i","s">>
      [] str = "so" -> <<"s","o">>
      [] str = "on" -> <<"o","n">>
      [] str = "no" -> <<"n","o">>
      [] str = "machine" -> <<"m","a","c","h","i","n","e">>
      [] str = "learning" -> <<"l","e","a","r","n","i","n","g">>
      [] str = "great" -> <<"g","r","e","a","t">>
      [] OTHER -> <<str>>

KEYWORDS == <<"AI", "work", "money", "content", "effort", "manual", "shorts",
              "video", "build", "create">>

COLOR_ON == <<"{", "\\", "c", "&", "H", "0", "0", "F", "F", "F", "F", "&", "}">>
COLOR_OFF == <<"{", "\\", "c", "&", "H", "F", "F", "F", "F", "F", "F", "&", "}">>

\* The vocabulary under re.IGNORECASE
KeywordsLower == [k \in 1..Len(KEYWORDS) |-> LowerStr(Chars(KEYWORDS[k]))]

\* Length of the keyword that \b(AI|work|...)\b matches at position p, 0 if none
MatchAt(text, p) ==
    IF p > 1 /\ IsWordChar(text[p - 1]) THEN 0
    ELSE LET fits(k) ==
                 LET w == KeywordsLower[k]
                     e == p + Len(w) - 1
                 IN  /\ e <= Len(text)
                     /\ \A j \in 1..Len(w) : Lower(text[p + j - 1]) = w[j]
                     /\ (e = Len(text) \/ ~IsWordChar(text[e + 1]))
             hits == {k \in 1..Len(KEYWORDS) : fits(k)}
         IN  IF hits = {} THEN 0 ELSE Len(KeywordsLower[SetMin(hits)])

\* What the replacement template puts between the colour tags: the matched
\* word for r"...\1..." (src/api), a backslash and a 1 for r"...\\1..." (src/caption.py)
Echo(v, matched) == IF v = "cli" THEN <<"\\", "1">> ELSE matched

RECURSIVE HighlightFrom(_, _, _)
HighlightFrom(v, text, p) ==
    IF p > Len(text) THEN <<>>
    ELSE LET m == MatchAt(text, p)
         IN  IF m > 0
             THEN COLOR_ON \o Echo(v, SubSeq(text, p, p + m - 1)) \o COLOR_OFF
                    \o HighlightFrom(v, text, p + m)
             ELSE <<text[p]>> \o HighlightFrom(v, text, p + 1)

Highlight(v, text) == HighlightFrom(v, text, 1)

---------------------------------------------------------------------------
(* Exact values and round(x, 2) *)

\* The value n / d, d > 0
Rat(n, d) == [n |-> n, d |-> d]
Whole(t) == Rat(t, 1)
RatLeq(a, b) == a.n * b.d <= b.n * a.d
RatMax(a, b) == IF RatLeq(a, b) THEN b ELSE a
RatAdd(a, t) == Rat(a.n + t * a.d, a.d)

\* round(x, 2) of x = q.n / q.d milliseconds: the nearest multiple of 10 ms.
\* Halfway between two of them the binary value of the float decides, which
\* the exact value does not determine: both neighbours are possible.
Round2(q) ==
    LET D == CENTI * q.d
        f == q.n \div D
        r == q.n % D
    IN  IF 2 * r < D THEN {CENTI * f}
        ELSE IF 2 * r > D THEN {CENTI * (f + 1)}
        ELSE {CENTI * f, CENTI * (f + 1)}

Cue(s, e, t) == [start |-> s, end |-> e, text |-> t]
Last(seq) == seq[Len(seq)]

---------------------------------------------------------------------------
(* The local Whisper variants: src/caption.py ("cli"),                     *)
(* src/api/caption_whisper.py ("whisper"), src/api/caption.py ("api")      *)

LocalVariants == {"cli", "whisper", "api"}

Pad(v) == IF v = "cli" THEN PAD_CLI ELSE PAD_API
MinDuration(v) == IF v = "cli" THEN MIN_CLI ELSE MIN_API
Punct(v) == IF v = "cli" THEN PUNCT_CLI ELSE IF v = "whisper" THEN PUNCT_WHISPER ELSE PUNCT_API

\* words of a segment: re.findall(r"\S+", re.sub(r"\s+", " ", seg["text"].strip()))
SegWords(seg) == Split(Strip(seg.text))

\* The condition with the last group of a full segment let in
MidLineInclusive(v, i, n) == i > 0 /\ i + CHUNK_LEN <= n

\* The condition under which a group loses its punctuation
MidLine(v, i, n) ==
    IF v = "cli" THEN i > 0 /\ i + CHUNK_LEN < n
    ELSE 0 < i /\ i < n - 3

\* text of the group at offset i, as appended (before text.strip())
GroupText(v, words, i) ==
    LET joined == Join(Slice(words, i, CHUNK_LEN))
        cleaned == IF MidLine(v, i, Len(words)) THEN RemoveChars(joined, Punct(v)) ELSE joined
    IN  Highlight(v, cleaned)

\* start of the group at offset i before any correction: seg.start + i * per_word
RawStart(seg, n, i) == Rat(seg.start * n + i * (seg.end - seg.start), n)

\* The end of the group without the padding
RawEndUnpadded(v, seg, n, i, k) == Rat(seg.start * n + (i + k) * (seg.end - seg.start), n)

\* its end: start + len(chunk) * per_word + padding
RawEnd(v, seg, n, i, k) == Rat(seg.start * n + (i + k) * (seg.end - seg.start) + Pad(v) * n, n)

\* The correction without the minimum duration kept after the moved start
CorrectedEndKept(v, s, e, sofar) ==
    IF sofar # <<>> /\ RatLeq(s, Whole(Last(sofar).end))
    THEN [start |-> Whole(Last(sofar).end + GAP), end |-> e]
    ELSE [start |-> s, end |-> e]

\* `if micro_segments and start <= micro_segments[-1]["end"]`: the start moved
\* past the previous cue and the end kept at least the minimum duration after it
Corrected(v, s, e, sofar) ==
    IF sofar # <<>> /\ RatLeq(s, Whole(Last(sofar).end))
    THEN LET s2 == Whole(Last(sofar).end + GAP)
         IN  [start |-> s2, end |-> RatMax(RatAdd(s2, MinDuration(v)), e)]
    ELSE [start |-> s, end |-> e]

\* The cues the group at offset i of seg can be appended as, given the list so far.
\* src/caption.py rounds first and corrects the rounded times;
\* the src/api variants correct the exact times and round on append.
GroupCues(v, seg, words, i, sofar) ==
    LET n == Len(words)
        k == Len(Slice(words, i, CHUNK_LEN))
        text == Strip(GroupText(v, words, i))
        rs == RawStart(seg, n, i)
        re == RawEnd(v, seg, n, i, k)
    IN  IF v = "cli"
        THEN { LET c == Corrected(v, Whole(s), Whole(e), sofar)
               IN  Cue(c.start.n, c.end.n, text) : s \in Round2(rs), e \in Round2(re) }
        ELSE LET c == Corrected(v, rs, re, sofar)
             IN  { Cue(s, e, text) : s \in Round2(c.start), e \in Round2(c.end) }

\* src/caption.py lines 94-97: the pass over the finished list
RECURSIVE AscendingPass(_, _)
AscendingPass(cues, i) ==
    IF i > Len(cues) THEN cues
    ELSE IF cues[i].start <= cues[i - 1].end
         THEN AscendingPass([cues EXCEPT ![i].start = cues[i - 1].end + GAP], i + 1)
         ELSE AscendingPass(cues, i + 1)

FinalPass(v, cues) == IF v = "cli" THEN AscendingPass(cues, 2) ELSE cues

\* `if total_words == 0: continue`
LocalSkipSegment ==
    /\ pc = "loop"
    /\ variant \in LocalVariants
    /\ si <= Len(segments)
    /\ SegWords(segments[si]) = <<>>
    /\ si' = si + 1
    /\ wi' = 0
    /\ UNCHANGED <<micro_segments, pc, inputVars, moduleVars, openaiVars, helperVars>>

\* One iteration of `for i in range(0, len(words), 3)`
LocalGroup ==
    /\ pc = "loop"
    /\ variant \in LocalVariants
    /\ si <= Len(segments)
    /\ LET words == SegWords(segments[si])
       IN  /\ words # <<>>
           /\ \E c \in GroupCues(variant, segments[si], words, wi, micro_segments) :
                  micro_segments' = Append(micro_segments, c)
           /\ IF wi + CHUNK_LEN < Len(words)
              THEN wi' = wi + CHUNK_LEN /\ si' = si
              ELSE wi' = 0 /\ si' = si + 1
    /\ UNCHANGED <<pc, inputVars, moduleVars, openaiVars, helperVars>>

\* After the last segment: the closing pass (src/caption.py) and the return
LocalReturn ==
    /\ pc = "loop"
    /\ variant \in LocalVariants
    /\ si > Len(segments)
    /\ micro_segments' = FinalPass(variant, micro_segments)
    /\ pc' = "done"
    /\ UNCHANGED <<si, wi, inputVars, moduleVars, openaiVars, helperVars>>

NextLocal == LocalSkipSegment \/ LocalGroup \/ LocalReturn

---------------------------------------------------------------------------
(* src/api/caption_openai.py: chunk_audio, fallback_segment_text, _dedup   *)

\* chunk_audio: one chunk per i in range(0, len(audio), max_ms), holding audio[i:i + max_ms]
RECURSIVE ChunksFrom(_, _, _)
ChunksFrom(len, max_ms, i) ==
    IF i >= len THEN <<>>
    ELSE <<[offset |-> i, duration |-> IF i + max_ms <= len THEN max_ms ELSE len - i]>>
           \o ChunksFrom(len, max_ms, i + max_ms)

\* Chunks of max_ms each, the last one not cut at the end of the audio
ChunkAudioUnclipped(len, max_ms) ==
    [i \in 1..((len + max_ms - 1) \div max_ms) |->
        [offset |-> (i - 1) * max_ms, duration |-> max_ms]]

ChunkAudio(len, max_ms) == ChunksFrom(len, max_ms, 0)

\* n_segments = max(1, len(words) // words_per_segment)
NSegments(n_words, wps) == IF n_words \div wps >= 1 THEN n_words \div wps ELSE 1

\* The loop of fallback_segment_text from its j-th iteration on; start is the
\* rounded value of the running start, avg_dur = duration / n_segments
RECURSIVE FallbackFrom(_, _, _, _, _)
FallbackFrom(words, duration, wps, j, start) ==
    IF j * wps >= Len(words) THEN {<<>>}
    ELSE LET n == NSegments(Len(words), wps)
             text == Strip(Join(Slice(words, j * wps, wps)))
         IN  UNION { { <<Cue(start, e, text)>> \o rest :
                         rest \in FallbackFrom(words, duration, wps, j + 1, e) } :
                     e \in Round2(Rat((j + 1) * duration, n)) }

\* fallback_segment_text(text, audio_path, words_per_segment) for an audio of
\* `duration` ms: the segment lists it can return
FallbackSegmentText(text, duration, wps) ==
    LET words == Split(text)
    IN  IF words = <<>> THEN {<<>>}
        ELSE UNION { FallbackFrom(words, duration, wps, 0, s) : s \in Round2(Whole(0)) }

\* prev_text[-i:] and new_text[:i]
Suffix(s, i) == SubSeq(s, Len(s) - i + 1, Len(s))
Prefix(s, i) == SubSeq(s, 1, i)

\* The shortest overlap instead of the longest
OverlapLenShortest(prev_text, new_text, i) ==
    LET found == {k \in 1..i : LowerStr(SubSeq(prev_text, Len(prev_text) - k + 1, Len(prev_text)))
                                 = LowerStr(SubSeq(new_text, 1, k))}
    IN  IF found = {} THEN 0 ELSE CHOOSE k \in found : \A m \in found : k <= m

\* The loop of _dedup: i counts down from min(len(prev), len(new)) and stops
\* at the first i whose suffix and prefix agree ignoring case
RECURSIVE OverlapLen(_, _, _)
OverlapLen(prev_text, new_text, i) ==
    IF i <= 0 THEN 0
    ELSE IF LowerStr(Suffix(prev_text, i)) = LowerStr(Prefix(new_text, i)) THEN i
    ELSE OverlapLen(prev_text, new_text, i - 1)

Dedup(prev_text, new_text) ==
    LET m == IF Len(prev_text) < Len(new_text) THEN Len(prev_text) ELSE Len(new_text)
        overlap_len == OverlapLen(prev_text, new_text, m)
    IN  Strip(SubSeq(new_text, overlap_len + 1, Len(new_text)))

---------------------------------------------------------------------------
(* src/api/caption_openai.py: generate_captions                            *)

NoGPT == <<"NoGPT">>

Chunks == ChunkAudio(audio_ms, MAX_MS)

\* d.get("segments") or []
Segs(d) == d.segments

\* segs[-1].get("end", 0)
SegEnd(seg) == IF seg.end = NoTime THEN 0 ELSE seg.end

\* The test without the full stop
EndsSentenceNoStop(word_text) == word_text # <<>> /\ word_text[Len(word_text)] \in {"!", "?"}

\* re.search(r"[.!?]$", word_text)
EndsSentence(word_text) == word_text # <<>> /\ Last(word_text) \in {".", "!", "?"}

\* The emission with last_text set to the text of the group before _dedup
EmitGroupLastRaw(words, from, to, sofar, prev_text, off) ==
    LET raw == Strip(Join(words))
        text == Dedup(prev_text, raw)
    IN  IF text # <<>>
        THEN { [cues |-> Append(sofar, Cue(from + off, to + off, text)), last |-> raw] }
        ELSE { [cues |-> sofar, last |-> prev_text] }

\* The cue lists after a closed group `words` spanning [from, to] is offered
\* for emission: _dedup against last_text, append unless empty
EmitGroup(words, from, to, sofar, prev_text, off) ==
    LET text == Dedup(prev_text, Strip(Join(words)))
    IN  IF text # <<>>
        THEN { [cues |-> Append(sofar, Cue(s, e, text)), last |-> text] :
                 s \in Round2(Whole(from + off)), e \in Round2(Whole(to + off)) }
        ELSE { [cues |-> sofar, last |-> prev_text] }

\* The loop together with line 245, which moves the end of the last cue
SmoothWithLastPad(cues, j) ==
    [i \in 1..Len(cues) |->
        [cues[i] EXCEPT
            !.start = IF i >= j /\ cues[i].start < cues[i - 1].end
                      THEN cues[i - 1].end + SMOOTH_GAP ELSE cues[i].start,
            !.end = IF i = Len(cues) THEN cues[i].end + LAST_PAD ELSE cues[i].end]]

\* lines 241-243: the start-adjusting loop of the smoothing
RECURSIVE SmoothStarts(_, _)
SmoothStarts(cues, j) ==
    IF j > Len(cues) THEN cues
    ELSE IF cues[j].start < cues[j - 1].end
         THEN SmoothStarts([cues EXCEPT ![j].start = cues[j - 1].end + SMOOTH_GAP], j + 1)
         ELSE SmoothStarts(cues, j + 1)

\* lines 240-245: smoothing, then the last cue's end moved back by 0.4 s
Smooth(cues) ==
    LET sm == SmoothStarts(cues, 2)
    IN  IF sm = <<>> THEN sm ELSE [sm EXCEPT ![Len(sm)].end = sm[Len(sm)].end + LAST_PAD]

\* get_openai_client: the module-level client, made by the first call
GetOpenAIClient == IF _client = NoClient THEN "OpenAI" ELSE _client

\* trim_leading_silence, get_openai_client, chunk_audio: the chunk files are cut
OAStart ==
    /\ pc = "start"
    /\ variant = "openai"
    /\ _client' = GetOpenAIClient
    /\ chunk_files' = 1..Len(Chunks)
    /\ pc' = "chunk"
    /\ UNCHANGED <<ci, chunk, chunk_start, segments_all, last_text, offset,
                   localVars, inputVars, parked, serverVars, helperVars>>

\* A chunk whose answer has neither segments nor text: RuntimeError
OANoText ==
    /\ pc = "chunk"
    /\ ci <= Len(Chunks)
    /\ Segs(responses[ci]) = <<>>
    /\ Strip(responses[ci].text) = <<>>
    /\ pc' = "error"
    /\ UNCHANGED <<openaiVars, localVars, inputVars, moduleVars, helperVars>>

\* A chunk whose answer has text and no segments: the fallback path, which
\* measures audio_path and ends in `continue`
OAFallback ==
    /\ pc = "chunk"
    /\ ci <= Len(Chunks)
    /\ Segs(responses[ci]) = <<>>
    /\ LET text == Strip(responses[ci].text)
           punctuated == IF responses[ci].gpt = NoGPT THEN text ELSE Strip(responses[ci].gpt)
       IN  /\ text # <<>>
           /\ \E fb \in FallbackSegmentText(punctuated, audio_ms, WORDS_PER_SEGMENT) :
                  segments_all' = segments_all \o fb
    /\ ci' = ci + 1
    /\ UNCHANGED <<pc, chunk, chunk_start, last_text, offset, chunk_files,
                   localVars, inputVars, moduleVars, helperVars>>

\* A chunk whose answer has segments: enter `for seg in segs`
OASegments ==
    /\ pc = "chunk"
    /\ ci <= Len(Chunks)
    /\ Segs(responses[ci]) # <<>>
    /\ pc' = "seg"
    /\ si' = 1
    /\ wi' = 0
    /\ UNCHANGED <<micro_segments, openaiVars, inputVars, moduleVars, helperVars>>

\* `if "words" not in seg or not seg["words"]: continue`
OASkipSeg ==
    /\ pc = "seg"
    /\ si <= Len(Segs(responses[ci]))
    /\ Segs(responses[ci])[si].words = <<>>
    /\ si' = si + 1
    /\ wi' = 0
    /\ UNCHANGED <<pc, micro_segments, openaiVars, inputVars, moduleVars, helperVars>>

\* One iteration of `for w in words`; entering the segment resets chunk, chunk_start
OAWord ==
    /\ pc = "seg"
    /\ si <= Len(Segs(responses[ci]))
    /\ LET words == Segs(responses[ci])[si].words
       IN  /\ wi < Len(words)
           /\ LET w == words[wi + 1]
                  word_text == Strip(w.word)
                  cur == IF wi = 0 THEN <<>> ELSE chunk
                  cur_start == IF wi = 0 \/ chunk_start = NoTime THEN w.start ELSE chunk_start
                  grown == Append(cur, word_text)
              IN  IF Len(grown) >= GROUP_WORDS \/ EndsSentence(word_text)
                  THEN /\ \E r \in EmitGroup(grown, cur_start, w.end, segments_all, last_text, offset) :
                              /\ segments_all' = r.cues
                              /\ last_text' = r.last
                       /\ chunk' = <<>>
                       /\ chunk_start' = NoTime
                  ELSE /\ chunk' = grown
                       /\ chunk_start' = cur_start
                       /\ UNCHANGED <<segments_all, last_text>>
    /\ wi' = wi + 1
    /\ UNCHANGED <<pc, si, micro_segments, ci, offset, chunk_files, inputVars, moduleVars, helperVars>>

\* `if chunk:` after the words of a segment: flush the remainder, next segment
OAFlush ==
    /\ pc = "seg"
    /\ si <= Len(Segs(responses[ci]))
    /\ LET words == Segs(responses[ci])[si].words
       IN  /\ words # <<>>
           /\ wi >= Len(words)
           /\ IF chunk # <<>>
              THEN \E r \in EmitGroup(chunk, chunk_start, Last(words).end, segments_all,
                                      last_text, offset) :
                       /\ segments_all' = r.cues
                       /\ last_text' = r.last
              ELSE UNCHANGED <<segments_all, last_text>>
    /\ si' = si + 1
    /\ wi' = 0
    /\ UNCHANGED <<pc, micro_segments, ci, chunk, chunk_start, offset, chunk_files,
                   inputVars, moduleVars, helperVars>>

\* After the segments of a chunk: offset += segs[-1].get("end", 0); ch.unlink()
OAEndChunk ==
    /\ pc = "seg"
    /\ si > Len(Segs(responses[ci]))
    /\ offset' = offset + SegEnd(Last(Segs(responses[ci])))
    /\ chunk_files' = chunk_files \ {ci}
    /\ ci' = ci + 1
    /\ pc' = "chunk"
    /\ UNCHANGED <<chunk, chunk_start, segments_all, last_text, localVars, inputVars, moduleVars, helperVars>>

\* After the last chunk with no cue at all: RuntimeError
OANoSegments ==
    /\ pc = "chunk"
    /\ ci > Len(Chunks)
    /\ segments_all = <<>>
    /\ pc' = "error"
    /\ UNCHANGED <<openaiVars, localVars, inputVars, moduleVars, helperVars>>

\* After the last chunk: smoothing and return
OAReturn ==
    /\ pc = "chunk"
    /\ ci > Len(Chunks)
    /\ segments_all # <<>>
    /\ segments_all' = Smooth(segments_all)
    /\ pc' = "done"
    /\ UNCHANGED <<ci, chunk, chunk_start, last_text, offset, chunk_files,
                   localVars, inputVars, moduleVars, helperVars>>

NextOpenAI ==
    \/ OAStart
    \/ OANoText
    \/ OAFallback
    \/ OASegments
    \/ OASkipSeg
    \/ OAWord
    \/ OAFlush
    \/ OAEndChunk
    \/ OANoSegments
    \/ OAReturn

---------------------------------------------------------------------------
(* Inputs *)

WordPool == <<"AI", "is", "so", "on", "no">>

\* The j-th word of a text
PoolWord(j) == Chars(WordPool[((j - 1) % Len(WordPool)) + 1])

\* A text of n words
PoolText(n) == Join([j \in 1..n |-> PoolWord(j)])

\* The same as Whisper gives it, after a space
SegText(n) == <<" ">> \o PoolText(n)

\* start and end of the input segments
Spans == {<<0, 0>>, <<0, 2000>>, <<2310, 2610>>}

TimedSegs == {[start |-> sp[1], end |-> sp[2], text |-> SegText(n)] :
                sp \in Spans, n \in 0..MaxWords}

SeqsUpTo(S, n) == UNION {[1..k -> S] : k \in 0..n}

\* Length of the track: no chunk, one chunk, two chunks
AudioLengths == {0, 300000, 600000}

\* Duration of one word in a word-timestamped answer
WordSteps == {400, 405}

\* How long after its last word a segment ends
SegSlacks == {0, 300}

\* A word-timestamped answer: one segment of n words, one every `step` ms from 0
WordsResponse(n, step, slack) ==
    [segments |-> << [start |-> 0,
                      end |-> n * step + slack,
                      text |-> PoolText(n),
                      words |-> [j \in 1..n |-> [word |-> PoolWord(j),
                                                 start |-> (j - 1) * step,
                                                 end |-> j * step]]] >>,
     text |-> PoolText(n),
     gpt |-> NoGPT]

\* An answer with segment-level times and text and no word tokens
SegmentOnlyResponse(n, step) ==
    [segments |-> << [start |-> 0, end |-> n * step, text |-> PoolText(n), words |-> <<>>] >>,
     text |-> PoolText(n),
     gpt |-> NoGPT]

\* An answer with text only, and what the punctuation request returns for it
TextResponse(n, gpt) == [segments |-> <<>>, text |-> PoolText(n), gpt |-> gpt]

TimedResponses ==
    {WordsResponse(n, step, slack) : n \in 0..MaxWords, step \in WordSteps, slack \in SegSlacks}
    \cup {TextResponse(n, NoGPT) : n \in 0..MaxWords}
    \cup {TextResponse(n, PoolText(n) \o <<".">>) : n \in 0..MaxWords}
    \cup {SegmentOnlyResponse(n, step) : n \in 1..MaxWords, step \in WordSteps}

IdleOpenAI ==
    /\ audio_ms = 0
    /\ responses = <<>>
    /\ ci = 1
    /\ chunk = <<>>
    /\ chunk_start = NoTime
    /\ segments_all = <<>>
    /\ last_text = <<>>
    /\ offset = 0
    /\ chunk_files = {}

IdleLocal ==
    /\ segments = <<>>
    /\ micro_segments = <<>>

IdleHelper ==
    /\ arg = NoRet
    /\ ret = NoRet

\* No request to the server
IdleServer ==
    /\ requests = <<>>
    /\ srt_files = <<>>
    /\ video_files = <<>>
    /\ event_loop = 0
    /\ cwd = "src"

\* One run only, in a module just loaded
SingleRun ==
    /\ _client = NoClient
    /\ parked = NoRun
    /\ IdleServer

InitLocal ==
    /\ variant \in LocalVariants
    /\ segments \in SeqsUpTo(TimedSegs, MaxSegs)
    /\ pc = "loop"
    /\ si = 1
    /\ wi = 0
    /\ micro_segments = <<>>
    /\ IdleOpenAI
    /\ IdleHelper
    /\ SingleRun

InitOpenAI ==
    /\ variant = "openai"
    /\ audio_ms \in AudioLengths
    /\ responses \in [1..Len(ChunkAudio(audio_ms, MAX_MS)) -> TimedResponses]
    /\ pc = "start"
    /\ si = 1
    /\ wi = 0
    /\ ci = 1
    /\ chunk = <<>>
    /\ chunk_start = NoTime
    /\ segments_all = <<>>
    /\ last_text = <<>>
    /\ offset = 0
    /\ chunk_files = {}
    /\ IdleLocal
    /\ IdleHelper
    /\ SingleRun

Init == InitLocal \/ InitOpenAI

Next == NextLocal \/ NextOpenAI

Spec == Init /\ [][Next]_vars

---------------------------------------------------------------------------
(* The helpers called on their own: the closing passes, fallback_segment_text, *)
(* _dedup and chunk_audio, each applied to an argument and returning          *)

IdleRun ==
    /\ si = 1
    /\ wi = 0
    /\ IdleLocal
    /\ IdleOpenAI

\* Times of the cues given to a pass, as round(x, 2) leaves them
PassTimes == {0, 80, 160}

PassCues == UNION {[1..n -> [start : PassTimes, end : PassTimes, text : {Chars("AI")}]] :
                     n \in 0..MaxCues}

\* The pass of src/caption.py or the start-adjusting loop of src/api/caption_openai.py
Pass(v, cues) == IF v = "cli" THEN AscendingPass(cues, 2) ELSE SmoothStarts(cues, 2)

InitPass ==
    /\ variant \in {"cli", "openai"}
    /\ arg \in PassCues
    /\ ret = NoRet
    /\ pc = "pass"
    /\ IdleRun
    /\ SingleRun

\* The pass over a list
CallPass ==
    /\ pc = "pass"
    /\ ret' = [once |-> Pass(variant, arg)]
    /\ pc' = "passed"
    /\ UNCHANGED <<arg, localVars, openaiVars, inputVars, moduleVars>>

\* The pass over the list the pass returned
CallPassAgain ==
    /\ pc = "passed"
    /\ ret' = [once |-> ret.once, twice |-> Pass(variant, ret.once)]
    /\ pc' = "passed_twice"
    /\ UNCHANGED <<arg, localVars, openaiVars, inputVars, moduleVars>>

NextPass == CallPass \/ CallPassAgain

SpecPass == InitPass /\ [][NextPass]_vars

\* Duration of the audio file fallback_segment_text measures, in ms
FallbackDurations == {1000, 1005, 10000}

FallbackWps == {2, 3, WORDS_PER_SEGMENT}

InitFallback ==
    /\ variant = "openai"
    /\ arg \in [text : {PoolText(n) : n \in 0..MaxFallbackWords},
                duration : FallbackDurations,
                words_per_segment : FallbackWps]
    /\ ret = NoRet
    /\ pc = "fallback_segment_text"
    /\ IdleRun
    /\ SingleRun

CallFallback ==
    /\ pc = "fallback_segment_text"
    /\ ret' \in FallbackSegmentText(arg.text, arg.duration, arg.words_per_segment)
    /\ pc' = "returned"
    /\ UNCHANGED <<arg, localVars, openaiVars, inputVars, moduleVars>>

SpecFallback == InitFallback /\ [][CallFallback]_vars

\* Characters of the texts given to _dedup
DedupAlphabet == {"a", "A", "b", " "}

DedupTexts == UNION {[1..n -> DedupAlphabet] : n \in 0..MaxStrLen}

ExamplePrev == Join(<<Chars("machine"), Chars("learning"), Chars("is")>>)
ExampleNew == Join(<<Chars("learning"), Chars("is"), Chars("great")>>)

InitDedup ==
    /\ variant = "openai"
    /\ arg \in [prev_text : DedupTexts, new_text : DedupTexts]
               \cup {[prev_text |-> ExamplePrev, new_text |-> ExampleNew]}
    /\ ret = NoRet
    /\ pc = "_dedup"
    /\ IdleRun
    /\ SingleRun

CallDedup ==
    /\ pc = "_dedup"
    /\ ret' = Dedup(arg.prev_text, arg.new_text)
    /\ pc' = "returned"
    /\ UNCHANGED <<arg, localVars, openaiVars, inputVars, moduleVars>>

SpecDedup == InitDedup /\ [][CallDedup]_vars

InitChunk ==
    /\ variant = "openai"
    /\ arg \in [len : 0..MaxAudio, max_ms : 1..MaxLimit]
               \cup {[len |-> 1200000, max_ms |-> MAX_MS]}
    /\ ret = NoRet
    /\ pc = "chunk_audio"
    /\ IdleRun
    /\ SingleRun

CallChunkAudio ==
    /\ pc = "chunk_audio"
    /\ ret' = ChunkAudio(arg.len, arg.max_ms)
    /\ pc' = "returned"
    /\ UNCHANGED <<arg, localVars, openaiVars, inputVars, moduleVars>>

SpecChunk == InitChunk /\ [][CallChunkAudio]_vars

---------------------------------------------------------------------------
(* generate_captions of the local variants on one segment whose words carry *)
(* punctuation                                                              *)

\* A word, a token made of punctuation only, a word followed by a comma
TextTokens == {Chars("AI"), <<"-">>, Chars("so") \o <<",">>}

PunctuatedTexts == {<<" ">> \o Join(ws) : ws \in SeqsUpTo(TextTokens, MaxTextWords)}

InitText ==
    /\ variant \in LocalVariants
    /\ segments \in {<<[start |-> 0, end |-> 2000, text |-> t]>> : t \in PunctuatedTexts}
    /\ pc = "loop"
    /\ si = 1
    /\ wi = 0
    /\ micro_segments = <<>>
    /\ IdleOpenAI
    /\ IdleHelper
    /\ SingleRun

SpecText == InitText /\ [][NextLocal]_vars

---------------------------------------------------------------------------
(* generate_captions of src/api/caption_openai.py on two chunks, the second *)
(* starting with the last words of the first                                *)

\* The j-th word of the track; the word numbered `dot` ends a sentence
SeamWord(j, dot) == <<LowerChars[j]>> \o (IF j = dot THEN <<".">> ELSE <<>>)

\* The answer for a chunk holding the words numbered from..to of the track,
\* one word every `step` ms
SeamResponse(from, to, dot, step) ==
    LET n == to - from + 1
        words == [j \in 1..n |-> [word |-> <<" ">> \o SeamWord(from + j - 1, dot),
                                  start |-> (j - 1) * step,
                                  end |-> j * step]]
    IN  [segments |-> << [start |-> 0,
                          end |-> n * step,
                          text |-> Join([j \in 1..n |-> SeamWord(from + j - 1, dot)]),
                          words |-> words] >>,
         text |-> Join([j \in 1..n |-> SeamWord(from + j - 1, dot)]),
         gpt |-> NoGPT]

\* a words in chunk 1, of which the last m open chunk 2, followed by b new words
SeamTranscripts ==
    UNION { { <<SeamResponse(1, a, dot, step), SeamResponse(a - m + 1, a + b, dot, step)>> :
                m \in 1..a, b \in 0..MaxNewWords, dot \in 0..(a + MaxNewWords),
                step \in WordSteps } :
            a \in 1..MaxSeamWords }

InitSeam ==
    /\ variant = "openai"
    /\ audio_ms = 2 * MAX_MS
    /\ responses \in SeamTranscripts
    /\ pc = "start"
    /\ si = 1
    /\ wi = 0
    /\ ci = 1
    /\ chunk = <<>>
    /\ chunk_start = NoTime
    /\ segments_all = <<>>
    /\ last_text = <<>>
    /\ offset = 0
    /\ chunk_files = {}
    /\ IdleLocal
    /\ IdleHelper
    /\ SingleRun

\* The steps of generate_captions such answers lead to
NextSeam == OAStart \/ OASegments \/ OAWord \/ OAFlush \/ OAEndChunk \/ OAReturn

SpecSeam == InitSeam /\ [][NextSeam]_vars

---------------------------------------------------------------------------
(* Properties of the generate_captions runs, checked under Spec *)

Returned == pc = "done"

\* The input segments are in time order, each with end >= start
ChronologicalSegments ==
    /\ \A k \in 1..Len(segments) : segments[k].end >= segments[k].start
    /\ \A k \in 1..(Len(segments) - 1) : segments[k + 1].start >= segments[k].end

\* The words of every answer are in time order, each with end >= start
ChronologicalWords ==
    \A c \in 1..Len(responses) : \A g \in 1..Len(responses[c].segments) :
        LET ws == responses[c].segments[g].words
        IN  /\ \A j \in 1..Len(ws) : ws[j].end >= ws[j].start
            /\ \A j \in 1..(Len(ws) - 1) : ws[j + 1].start >= ws[j].end

GapKept(cues) == \A i \in 1..(Len(cues) - 1) : cues[i + 1].start >= cues[i].end + 80

\* C1: in every variant, for input in time order with end >= start, every two
\* adjacent cues of the returned list satisfy cue[i+1].start >= cue[i].end + GAP,
\* GAP = 0.08 s.
C1_GapBetweenCues ==
    Returned =>
        /\ (variant \in LocalVariants /\ ChronologicalSegments) => GapKept(micro_segments)
        /\ (variant = "openai" /\ ChronologicalWords) => GapKept(segments_all)

\* C2: in the local Whisper variants every cue of the list has end > start and
\* lasts at least MIN_DURATION (0.3 s in src/caption.py, 0.25 s in
\* src/api/caption_whisper.py and src/api/caption.py), for every input with
\* end >= start, also after the closing pass of src/caption.py.
C2_MinimumDuration ==
    variant \in LocalVariants =>
        \A i \in 1..Len(micro_segments) :
            /\ micro_segments[i].end > micro_segments[i].start
            /\ micro_segments[i].end - micro_segments[i].start
                 >= (IF variant = "cli" THEN 300 ELSE 250)

\* A returned list of src/caption.py with a cue whose start was moved past the
\* previous cue and whose duration is exactly the minimum
C2_Witness ==
    /\ Returned
    /\ variant = "cli"
    /\ \E i \in 2..Len(micro_segments) :
           /\ micro_segments[i].start = micro_segments[i - 1].end + 80
           /\ micro_segments[i].end - micro_segments[i].start = 300

\* C3: the smoothing of src/api/caption_openai.py never returns a cue with
\* end <= start.
C3_NoNegativeDuration ==
    (Returned /\ variant = "openai") =>
        \A i \in 1..Len(segments_all) : segments_all[i].end > segments_all[i].start

\* The smoothing with a negative-duration cue in the returned list: a cue moved
\* past the cue of a fallback segment that spans the whole audio
C3_Reached ==
    /\ Returned
    /\ variant = "openai"
    /\ \E i \in 2..Len(segments_all) :
           /\ segments_all[i].start = segments_all[i - 1].end + 80
           /\ segments_all[i].end <= segments_all[i].start

---------------------------------------------------------------------------
(* Properties of the closing passes, checked under SpecPass *)

\* C4: applying the closing pass (src/caption.py lines 94-97, the loop of
\* src/api/caption_openai.py lines 241-243) to its own output changes no cue,
\* and on a list that already keeps the gap between adjacent cues the pass
\* changes nothing.
C4_PassIdempotent ==
    /\ pc \in {"passed", "passed_twice"} => (GapKept(arg) => ret.once = arg)
    /\ pc = "passed_twice" => ret.twice = ret.once

\* A list the pass changed, passed twice
C4_Witness ==
    /\ pc = "passed_twice"
    /\ Len(arg) >= 3
    /\ ret.once # arg
    /\ ret.once[2].start # arg[2].start
    /\ ret.once[3].start # arg[3].start

---------------------------------------------------------------------------
(* Properties of fallback_segment_text, checked under SpecFallback *)

Ceil(a, b) == (a + b - 1) \div b

Distance(a, b) == IF a >= b THEN a - b ELSE b - a

\* C5: for a non-empty text the returned segments are ceil(word_count /
\* words_per_segment) slices, contiguous from 0, and the last one ends at the
\* duration D of the audio, up to the rounding to 0.01 s.
C5_FallbackTilesDuration ==
    (pc = "returned" /\ Split(arg.text) # <<>>) =>
        /\ Len(ret) = Ceil(Len(Split(arg.text)), arg.words_per_segment)
        /\ ret[1].start = 0
        /\ \A i \in 1..(Len(ret) - 1) : ret[i + 1].start = ret[i].end
        /\ 2 * Distance(ret[Len(ret)].end, arg.duration) <= 10

---------------------------------------------------------------------------
(* Properties of _dedup, checked under SpecDedup *)

\* The k for which the last k characters of p equal the first k of n ignoring case
Overlaps(p, n) ==
    {k \in 0..(IF Len(p) < Len(n) THEN Len(p) ELSE Len(n)) :
        \A j \in 1..k : Lower(p[Len(p) - k + j]) = Lower(n[j])}

\* C6: _dedup(prev_text, new_text) is new_text without its first k characters
\* and trimmed, k the largest overlap of the end of prev_text with the start
\* of new_text ignoring case; "machine learning is", "learning is great"
\* gives "great".
C6_DedupLongestOverlap ==
    pc = "returned" =>
        /\ LET k == SetMax(Overlaps(arg.prev_text, arg.new_text))
           IN  ret = Strip(SubSeq(arg.new_text, k + 1, Len(arg.new_text)))
        /\ (arg.prev_text = ExamplePrev /\ arg.new_text = ExampleNew) => ret = Chars("great")

\* The example of the claim, returned
C6_Witness ==
    /\ pc = "returned"
    /\ arg.prev_text = ExamplePrev
    /\ arg.new_text = ExampleNew
    /\ ret = Chars("great")

---------------------------------------------------------------------------
(* Properties of chunk_audio, checked under SpecChunk *)

RECURSIVE SumDurations(_)
SumDurations(chunks) ==
    IF chunks = <<>> THEN 0 ELSE chunks[1].duration + SumDurations(Tail(chunks))

\* C8: for L > 0 and M > 0 the chunks have offsets 0, M, 2M, ..., each offset is
\* the previous offset plus the previous duration, every duration is in 1..M,
\* the durations sum to L and there are ceil(L / M) chunks; L <= M gives one
\* chunk, L = 1200 s and M = 540 s gives offsets 0, 540, 1080 and durations
\* 540, 540, 120.
C8_ChunksTileTrack ==
    (pc = "returned" /\ arg.len > 0) =>
        /\ \A i \in 1..Len(ret) : ret[i].offset = (i - 1) * arg.max_ms
        /\ \A i \in 1..(Len(ret) - 1) : ret[i + 1].offset = ret[i].offset + ret[i].duration
        /\ \A i \in 1..Len(ret) : ret[i].duration \in 1..arg.max_ms
        /\ SumDurations(ret) = arg.len
        /\ Len(ret) = Ceil(arg.len, arg.max_ms)
        /\ arg.len <= arg.max_ms => Len(ret) = 1
        /\ (arg.len = 1200000 /\ arg.max_ms = 540000) =>
               ret = << [offset |-> 0, duration |-> 540000],
                        [offset |-> 540000, duration |-> 540000],
                        [offset |-> 1080000, duration |-> 120000] >>

\* The 20-minute track cut with the 9-minute limit
C8_Witness ==
    /\ pc = "returned"
    /\ arg.len = 1200000
    /\ arg.max_ms = 540000
    /\ Len(ret) = 3
    /\ ret[3].duration = 120000

---------------------------------------------------------------------------
(* Properties of the seam between two chunks, checked under SpecSeam *)

\* The words of an answer, as word_text holds them
WordsOf(response) ==
    UNION { {Strip(response.segments[g].words[j].word) :
                j \in 1..Len(response.segments[g].words)} :
            g \in 1..Len(response.segments) }

\* The words of the returned cues, in order
EmittedWords == Split(Join([i \in 1..Len(segments_all) |-> segments_all[i].text]))

Count(seq, x) == Cardinality({i \in 1..Len(seq) : seq[i] = x})

\* C7: when chunk 2 starts with the last m words of chunk 1, the returned cues
\* hold each of those m words once, and no cue starts before the previous cue
\* has ended.
C7_SeamWordsOnce ==
    (Returned /\ variant = "openai" /\ Len(responses) = 2) =>
        /\ \A w \in WordsOf(responses[1]) \cap WordsOf(responses[2]) :
               Count(EmittedWords, w) = 1
        /\ \A i \in 1..(Len(segments_all) - 1) :
               segments_all[i + 1].start >= segments_all[i].end

---------------------------------------------------------------------------
(* Properties of the cue texts, checked under SpecText *)

\* C10: every cue of the returned list has a text that is not empty after
\* trimming; a group whose text became empty is not appended.
C10_NonEmptyText ==
    Returned =>
        /\ \A i \in 1..Len(micro_segments) : Strip(micro_segments[i].text) # <<>>
        /\ \A i \in 1..Len(segments_all) : Strip(segments_all[i].text) # <<>>

---------------------------------------------------------------------------
(* Times of the cues as appended, checked under Spec *)

\* t is a multiple of 0.01 s nearest to the exact time num / den
Near(t, num, den) ==
    /\ t % 10 = 0
    /\ 2 * Distance(t * den, num) <= 10 * den

\* A step of a local variant that appends a cue
LocalAppend ==
    /\ pc = "loop"
    /\ variant \in LocalVariants
    /\ Len(micro_segments') = Len(micro_segments) + 1

\* The cue appended by a local variant, against the words it shows: the i-th
\* word of n over [seg.start, seg.end] starts at seg.start + i * (dur / n).
\* pad is the trailing padding in ms.
LocalCueTimes(pad) ==
    LET seg == segments[si]
        n == Len(Split(Strip(seg.text)))
        k == IF n - wi < 3 THEN n - wi ELSE 3
        dur == seg.end - seg.start
        first_start == seg.start * n + wi * dur
        last_end == seg.start * n + (wi + k) * dur
        c == micro_segments'[Len(micro_segments')]
        unmoved == Near(c.start, first_start, n) /\ Near(c.end, last_end + pad * n, n)
        min == IF variant = "cli" THEN 300 ELSE 250
    IN  IF micro_segments = <<>> \/ first_start > (micro_segments[Len(micro_segments)].end + 5) * n
        THEN unmoved
        ELSE \/ unmoved
             \/ /\ c.start = micro_segments[Len(micro_segments)].end + 80
                /\ c.end >= c.start + min
                /\ Near(c.end, last_end + pad * n, n) \/ c.end = c.start + min

\* A step of src/api/caption_openai.py that appends the cue of a word group
OpenAIAppend ==
    /\ pc = "seg"
    /\ variant = "openai"
    /\ Len(segments_all') = Len(segments_all) + 1

\* The cue appended by src/api/caption_openai.py, against the words it shows;
\* pad is the trailing padding in ms
OpenAICueTimes(pad) ==
    LET words == responses[ci].segments[si].words
        last == IF wi < Len(words) THEN wi + 1 ELSE Len(words)
        held == IF wi = 0 THEN 0 ELSE Len(chunk)
        first == IF wi < Len(words) THEN wi + 1 - held ELSE Len(words) - held + 1
        c == segments_all'[Len(segments_all')]
    IN  /\ Near(c.start, words[first].start + offset, 1)
        /\ Near(c.end, words[last].end + offset + pad, 1)

\* The return of src/api/caption_openai.py: 0.4 s added to the end of the last cue only
OpenAILastPad ==
    (pc = "chunk" /\ pc' = "done") =>
        /\ segments_all'[Len(segments_all')].end = segments_all[Len(segments_all)].end + 400
        /\ \A i \in 1..(Len(segments_all) - 1) : segments_all'[i].end = segments_all[i].end

\* Five words at 0.4 s per word from t = 0
ExampleSegments == << [start |-> 0, end |-> 2000, text |-> SegText(5)] >>

Times(cues) == [i \in 1..Len(cues) |-> <<cues[i].start, cues[i].end>>]

\* The cues of the example: {0.0, 1.45}, then the second cue moved past 1.45
\* and ending at 2.25 (src/api); {0.0, 1.5} and an end of 2.3 in src/caption.py
ExampleCues ==
    (Returned /\ segments = ExampleSegments) =>
        /\ variant \in {"whisper", "api"} => Times(micro_segments) = << <<0, 1450>>, <<1530, 2250>> >>
        /\ variant = "cli" => Times(micro_segments) = << <<0, 1500>>, <<1580, 2300>> >>

---------------------------------------------------------------------------
(* Failures of generate_captions, checked under Spec *)

\* C11: a transcript that yields no cue makes generate_captions fail instead of
\* returning an empty list, in src/api/caption_openai.py and in
\* src/api/caption_whisper.py.
C11_NoCueFails ==
    (Returned /\ variant \in {"openai", "whisper"}) =>
        /\ variant = "openai" => segments_all # <<>>
        /\ variant = "whisper" => micro_segments # <<>>

\* C12: in src/api/caption_openai.py a chunk answered with no text and no
\* segments does not end the run: the list of cues is left as it is, the next
\* chunk is taken and the offset advances by the duration of the chunk.
C12_EmptyChunkSkipped ==
    [][(/\ variant = "openai"
        /\ pc = "chunk"
        /\ ci <= Len(Chunks)
        /\ responses[ci].segments = <<>>
        /\ Strip(responses[ci].text) = <<>>)
       => /\ pc' = "chunk"
          /\ ci' = ci + 1
          /\ segments_all' = segments_all
          /\ offset' = offset + Chunks[ci].duration]_vars

\* The text without the color-on and color-off markup
RECURSIVE Unmark(_)
Unmark(text) ==
    IF text = <<>> THEN <<>>
    ELSE IF Len(text) >= Len(COLOR_ON) /\ SubSeq(text, 1, Len(COLOR_ON)) = COLOR_ON
         THEN Unmark(SubSeq(text, Len(COLOR_ON) + 1, Len(text)))
    ELSE IF Len(text) >= Len(COLOR_OFF) /\ SubSeq(text, 1, Len(COLOR_OFF)) = COLOR_OFF
         THEN Unmark(SubSeq(text, Len(COLOR_OFF) + 1, Len(text)))
    ELSE <<Head(text)>> \o Unmark(Tail(text))

\* The text of the group at word offset wi of the current segment before the
\* highlighting: its words joined, without punctuation in a mid-line group
PlainGroupText ==
    LET words == Split(Strip(segments[si].text))
        n == Len(words)
        to == IF wi + 3 < n THEN wi + 3 ELSE n
        joined == Join(SubSeq(words, wi + 1, to))
        mid == IF variant = "cli" THEN wi > 0 /\ wi + 3 < n ELSE 0 < wi /\ wi < n - 3
    IN  IF mid THEN RemoveChars(joined, Punct(variant)) ELSE joined

\* C13: in the three local variants the highlighting puts color-on and
\* color-off around the matched word itself: the text of an appended cue
\* without the markup is the text of its group before the highlighting.
C13_HighlightEchoesWord ==
    [][LocalAppend =>
          Unmark(micro_segments'[Len(micro_segments')].text) = Strip(PlainGroupText)]_vars

---------------------------------------------------------------------------
(* Word groups of src/api/caption_openai.py, checked under Spec and SpecSeam *)

\* The words of the segment being read
SegmentWords == responses[ci].segments[si].words

\* Words held in `chunk` before the step
Held == IF wi = 0 THEN 0 ELSE Len(chunk)

\* The step reads the next word of the segment
ReadsWord ==
    /\ pc = "seg"
    /\ variant = "openai"
    /\ wi' = wi + 1

\* The step is the flush after the last word of the segment
Flushes ==
    /\ pc = "seg"
    /\ variant = "openai"
    /\ si' = si + 1
    /\ SegmentWords # <<>>

\* The word read ends with '.', '!' or '?'
ReadsSentenceEnd ==
    LET word_text == Strip(SegmentWords[wi + 1].word)
    IN  word_text # <<>> /\ word_text[Len(word_text)] \in {".", "!", "?"}

\* The step closes a group: the third word or a sentence end is read, or
\* words are left at the flush
ClosesGroup ==
    \/ ReadsWord /\ (Held + 1 >= 3 \/ ReadsSentenceEnd)
    \/ Flushes /\ Held > 0

\* The words of the group the step closes, in input order
ClosedWords ==
    LET last == IF ReadsWord THEN wi + 1 ELSE Len(SegmentWords)
        first == last - (IF ReadsWord THEN Held + 1 ELSE Held) + 1
    IN  [j \in 1..(last - first + 1) |-> Strip(SegmentWords[first + j - 1].word)]

C16_OffsetIsChunkPosition ==
    (variant = "openai" /\ pc \in {"chunk", "seg"} /\ ci <= Len(Chunks)) =>
        offset = Chunks[ci].offset

\* The positions of the words that close a group: the third word of the open
\* group, or a word ending with '.', '!' or '?'; `size` words are open before word j
RECURSIVE GroupEnds(_, _, _)
GroupEnds(words, j, size) ==
    IF j > Len(words) THEN {}
    ELSE LET word_text == Strip(words[j].word)
             closes == \/ size + 1 >= 3
                       \/ word_text # <<>> /\ word_text[Len(word_text)] \in {".", "!", "?"}
         IN  IF closes THEN {j} \cup GroupEnds(words, j + 1, 0)
             ELSE GroupEnds(words, j + 1, size + 1)

\* The last position at or before j that closed a group, 0 if none
LastGroupEnd(words, j) == SetMax({0} \cup {b \in GroupEnds(words, 1, 0) : b <= j})

\* While a segment is read, `chunk` holds the words read after the last closed
\* group, in input order
OpenGroupHeld ==
    (variant = "openai" /\ pc = "seg" /\ si <= Len(responses[ci].segments) /\ wi >= 1) =>
        LET from == LastGroupEnd(SegmentWords, wi)
        IN  chunk = [j \in 1..(wi - from) |-> Strip(SegmentWords[from + j].word)]

\* C17: the words of a segment are grouped in input order; a group is closed
\* exactly when it reaches 3 words or its latest word ends with '.', '!' or
\* '?', the words left at the end of the segment are one last group, every
\* group has 1 to 3 words, and the groups of a segment, one after the other,
\* are its words.
C17_WordGroups ==
    /\ []OpenGroupHeld
    /\ [][/\ ReadsWord => (ClosesGroup <=> (wi + 1) \in GroupEnds(SegmentWords, 1, 0))
          /\ ClosesGroup =>
                /\ Len(ClosedWords) \in 1..3
                /\ ClosedWords = [j \in 1..Len(ClosedWords) |->
                      Strip(SegmentWords[LastGroupEnd(SegmentWords, wi) + j].word)]
                /\ ReadsWord \/ LastGroupEnd(SegmentWords, wi) + Len(ClosedWords) = Len(SegmentWords)
                /\ segments_all' =
                     (IF Dedup(last_text, Join(ClosedWords)) = <<>> THEN segments_all
                      ELSE Append(segments_all,
                                  [segments_all'[Len(segments_all')] EXCEPT
                                      !.text = Dedup(last_text, Join(ClosedWords))]))
          /\ OpenAIAppend => ClosesGroup]_vars

\* A group of two words closed by a full stop, with words of the segment left
C17_Witness ==
    /\ variant = "openai"
    /\ pc = "seg"
    /\ ci = 1
    /\ wi = 2
    /\ Len(SegmentWords) > 2
    /\ chunk = <<>>
    /\ Len(segments_all) = 1
    /\ segments_all[1].text = <<"a", " ", "b", ".">>

---------------------------------------------------------------------------
(* Punctuation of the groups of the local variants, checked under SpecText *)

\* Comma, double quote, colon, semicolon, dash, '?' and '!'
InteriorPunctuation == {",", "\"", ":", ";", "-", "?", "!"}

CountIn(text, set) == Cardinality({j \in 1..Len(text) : text[j] \in set})

\* Word offset of the last group of a segment of n words
LastGroupOffset(n) == 3 * ((n - 1) \div 3)

\* The cue appended for the group at word offset wi: without punctuation when
\* the group is neither the first nor the last of its segment, with all the
\* punctuation of its words otherwise
GroupPunctuation ==
    LET words == Split(Strip(segments[si].text))
        n == Len(words)
        to == IF wi + 3 < n THEN wi + 3 ELSE n
        joined == Join(SubSeq(words, wi + 1, to))
        c == micro_segments'[Len(micro_segments')]
    IN  IF wi # 0 /\ wi # LastGroupOffset(n)
        THEN CountIn(c.text, InteriorPunctuation) = 0
        ELSE CountIn(c.text, InteriorPunctuation) = CountIn(joined, InteriorPunctuation)

\* The conditions of src/caption.py and of the src/api variants select the
\* groups that are neither first nor last, for every word count
SameMidLineGroups ==
    \A n \in 1..(3 * MaxTextWords) : \A g \in 0..((n - 1) \div 3) :
        /\ MidLine("cli", 3 * g, n) <=> (g # 0 /\ 3 * g # LastGroupOffset(n))
        /\ MidLine("whisper", 3 * g, n) <=> MidLine("cli", 3 * g, n)
        /\ MidLine("api", 3 * g, n) <=> MidLine("cli", 3 * g, n)

\* C18: in the local variants the punctuation (comma, quotes, colon,
\* semicolon, dash, '?', '!') is removed from the text of a group exactly
\* when the group is neither the first nor the last group of its segment, and
\* the conditions of src/caption.py and of src/api select the same groups for
\* every word count.
C18_MidLinePunctuation ==
    /\ []SameMidLineGroups
    /\ [][LocalAppend => GroupPunctuation]_vars

\* Seven words with a comma each: the middle cue without commas, the first and
\* the last with theirs
C18_Witness ==
    /\ Returned
    /\ variant = "api"
    /\ Len(micro_segments) = 3
    /\ CountIn(micro_segments[1].text, {","}) = 3
    /\ micro_segments[2].text = Join(<<Chars("so"), Chars("so"), Chars("so")>>)
    /\ CountIn(micro_segments[3].text, {","}) = 1

---------------------------------------------------------------------------
(* Segments without words and answers without segments in                  *)
(* src/api/caption_openai.py, checked under Spec                           *)

\* C19: a segment of the answer that has start, end and text and no word
\* tokens yields one cue with the text of the segment and its start and end
\* moved by the offset of the chunk.
C19_WordlessSegmentYieldsCue ==
    [][(/\ variant = "openai"
        /\ pc = "seg"
        /\ si <= Len(responses[ci].segments)
        /\ SegmentWords = <<>>
        /\ Strip(responses[ci].segments[si].text) # <<>>)
       => /\ Len(segments_all') = Len(segments_all) + 1
          /\ segments_all'[Len(segments_all')].start = responses[ci].segments[si].start + offset
          /\ segments_all'[Len(segments_all')].end = responses[ci].segments[si].end + offset]_vars

\* C20: for a chunk answered with text and no segments, every fallback cue
\* lies within the chunk, offset <= start < end <= offset + duration of the
\* chunk, the offset then advances by that duration and the file of the chunk
\* is removed.
C20_FallbackWithinChunk ==
    [][(/\ variant = "openai"
        /\ pc = "chunk"
        /\ ci <= Len(Chunks)
        /\ responses[ci].segments = <<>>
        /\ Strip(responses[ci].text) # <<>>)
       => /\ Len(segments_all') > Len(segments_all)
          /\ \A j \in (Len(segments_all) + 1)..Len(segments_all') :
                 /\ offset <= segments_all'[j].start
                 /\ segments_all'[j].start < segments_all'[j].end
                 /\ segments_all'[j].end <= offset + Chunks[ci].duration
          /\ offset' = offset + Chunks[ci].duration
          /\ ci \notin chunk_files']_vars

----------------------------------------------------------------------------
(* Two runs of generate_captions of src/api/caption_openai.py in one        *)
(* process. The variables ci .. chunk_files, si, wi, audio_ms, responses     *)
(* hold the locals and arguments of the run that takes the next step;       *)
(* `parked` holds those of the other run. _client is the module's global.   *)

\* The locals and arguments of the run that steps: one frame of generate_captions
Frame ==
    [pc |-> pc, si |-> si, wi |-> wi, ci |-> ci, chunk |-> chunk,
     chunk_start |-> chunk_start, segments_all |-> segments_all,
     last_text |-> last_text, offset |-> offset, chunk_files |-> chunk_files,
     audio_ms |-> audio_ms, responses |-> responses]

\* The frame on entry: segments_all = [], offset = 0.0, last_text = ""
NewRun(audio, resp) ==
    [pc |-> "start", si |-> 1, wi |-> 0, ci |-> 1, chunk |-> <<>>,
     chunk_start |-> NoTime, segments_all |-> <<>>, last_text |-> <<>>,
     offset |-> 0, chunk_files |-> {}, audio_ms |-> audio, responses |-> resp]

\* offset as a variable of the module, one for both runs
SharedOffset(run) == offset

\* `offset = 0.0` is a local of generate_captions: each run reads its own
OwnOffset(run) == run.offset

\* The scheduler hands the processor to the other run
Switch ==
    /\ parked.pc \notin {"none", "done"}
    /\ parked' = Frame
    /\ pc' = parked.pc
    /\ si' = parked.si
    /\ wi' = parked.wi
    /\ ci' = parked.ci
    /\ chunk' = parked.chunk
    /\ chunk_start' = parked.chunk_start
    /\ segments_all' = parked.segments_all
    /\ last_text' = parked.last_text
    /\ offset' = OwnOffset(parked)
    /\ chunk_files' = parked.chunk_files
    /\ audio_ms' = parked.audio_ms
    /\ responses' = parked.responses
    /\ UNCHANGED <<variant, segments, micro_segments, _client, serverVars, helperVars>>

\* get_openai_client, `if _client is None:` found true; the assignment is
\* a later step, so the other run may pass the same test in between
OASeesNoClient ==
    /\ pc = "start"
    /\ variant = "openai"
    /\ _client = NoClient
    /\ pc' = "client"
    /\ UNCHANGED <<openaiVars, localVars, inputVars, moduleVars, helperVars>>

\* `_client = OpenAI(api_key=api_key)`, `return _client`, then chunk_audio
OAMakeClient ==
    /\ pc = "client"
    /\ _client' = "OpenAI"
    /\ chunk_files' = 1..Len(Chunks)
    /\ pc' = "chunk"
    /\ UNCHANGED <<ci, chunk, chunk_start, segments_all, last_text, offset,
                   localVars, inputVars, parked, serverVars, helperVars>>

\* The answers of the transcription service in the two-run model
TwoRunAnswers ==
    {WordsResponse(GROUP_WORDS + 1, step, 0) : step \in WordSteps}
    \cup {TextResponse(2, NoGPT)}

\* The arguments of one run: a track of one or two chunks and its answers
TwoRunInputs ==
    UNION { { NewRun(audio, resp) :
                resp \in [1..Len(ChunkAudio(audio, MAX_MS)) -> TwoRunAnswers] } :
            audio \in AudioLengths \ {0} }

InitTwoRuns ==
    /\ variant = "openai"
    /\ \E run \in TwoRunInputs :
          /\ audio_ms = run.audio_ms
          /\ responses = run.responses
    /\ parked \in TwoRunInputs
    /\ _client = NoClient
    /\ IdleServer
    /\ pc = "start"
    /\ si = 1
    /\ wi = 0
    /\ ci = 1
    /\ chunk = <<>>
    /\ chunk_start = NoTime
    /\ segments_all = <<>>
    /\ last_text = <<>>
    /\ offset = 0
    /\ chunk_files = {}
    /\ IdleLocal
    /\ IdleHelper

NextTwoRuns ==
    \/ OAStart
    \/ OASeesNoClient
    \/ OAMakeClient
    \/ OAFallback
    \/ OASegments
    \/ OAWord
    \/ OAFlush
    \/ OAEndChunk
    \/ OAReturn
    \/ Switch

SpecTwoRuns == InitTwoRuns /\ [][NextTwoRuns]_vars

\* generate_captions as a function of its argument and of the answers: the
\* loop `for w in words` from word k on, st the locals cues, last, chunk,
\* chunk_start; the result is the set of (segments_all, last_text) it may leave
RECURSIVE WordsAlone(_, _, _, _)
WordsAlone(words, k, st, off) ==
    IF k > Len(words)
    THEN IF st.chunk # <<>>
         THEN { [cues |-> r.cues, last |-> r.last] :
                  r \in EmitGroup(st.chunk, st.chunk_start, Last(words).end,
                                  st.cues, st.last, off) }
         ELSE { [cues |-> st.cues, last |-> st.last] }
    ELSE LET w == words[k]
             word_text == Strip(w.word)
             cur_start == IF st.chunk_start = NoTime THEN w.start ELSE st.chunk_start
             grown == Append(st.chunk, word_text)
         IN  IF Len(grown) >= GROUP_WORDS \/ EndsSentence(word_text)
             THEN UNION { WordsAlone(words, k + 1,
                                     [cues |-> r.cues, last |-> r.last,
                                      chunk |-> <<>>, chunk_start |-> NoTime], off) :
                            r \in EmitGroup(grown, cur_start, w.end, st.cues, st.last, off) }
             ELSE WordsAlone(words, k + 1,
                             [st EXCEPT !.chunk = grown, !.chunk_start = cur_start], off)

\* The loop `for seg in segs` from segment k on
RECURSIVE SegsAlone(_, _, _, _, _)
SegsAlone(segs, k, cues, last, off) ==
    IF k > Len(segs) THEN { [cues |-> cues, last |-> last] }
    ELSE IF segs[k].words = <<>> THEN SegsAlone(segs, k + 1, cues, last, off)
    ELSE UNION { SegsAlone(segs, k + 1, r.cues, r.last, off) :
                   r \in WordsAlone(segs[k].words, 1,
                                    [cues |-> cues, last |-> last,
                                     chunk |-> <<>>, chunk_start |-> NoTime], off) }

\* The loop `for i, ch in enumerate(chunks, 1)` from chunk k on, then the
\* smoothing; a run that raises returns nothing
RECURSIVE ChunksAlone(_, _, _, _, _, _)
ChunksAlone(audio, resp, k, cues, last, off) ==
    IF k > Len(ChunkAudio(audio, MAX_MS))
    THEN IF cues = <<>> THEN {} ELSE {Smooth(cues)}
    ELSE IF Segs(resp[k]) = <<>>
    THEN LET text == Strip(resp[k].text)
             punctuated == IF resp[k].gpt = NoGPT THEN text ELSE Strip(resp[k].gpt)
         IN  IF text = <<>> THEN {}
             ELSE UNION { ChunksAlone(audio, resp, k + 1, cues \o fb, last, off) :
                            fb \in FallbackSegmentText(punctuated, audio, WORDS_PER_SEGMENT) }
    ELSE UNION { ChunksAlone(audio, resp, k + 1, r.cues, r.last,
                             off + SegEnd(Last(Segs(resp[k])))) :
                   r \in SegsAlone(Segs(resp[k]), 1, cues, last, off) }

\* What generate_captions(audio) may return when it is the only run
RunAlone(audio, resp) == ChunksAlone(audio, resp, 1, <<>>, <<>>, 0)

\* The fold and the steps of one run agree
RunAloneIsTheRun ==
    (Returned /\ variant = "openai") => segments_all \in RunAlone(audio_ms, responses)

\* C14: under every interleaving of two runs of generate_captions, each run
\* returns a cue list it returns when it is the only run; the cue list, the
\* last emitted text and the offset of one run are not touched by the other
C14_RunsDoNotInterfere ==
    /\ pc = "done" => segments_all \in RunAlone(audio_ms, responses)
    /\ parked.pc = "done" =>
           parked.segments_all \in RunAlone(parked.audio_ms, parked.responses)

\* One run has returned while the other is inside its second chunk with cues
\* of its own and another offset; both went through get_openai_client
C14_Witness ==
    /\ pc = "done"
    /\ parked.pc = "seg"
    /\ parked.ci = 2
    /\ parked.segments_all # <<>>
    /\ parked.segments_all[1] # segments_all[1]
    /\ parked.offset # offset
    /\ _client # NoClient

\* The text of the group the step closes, before _dedup
ClosedText == Strip(Join(ClosedWords))

\* The text of the cue the step appends
AppendedText == segments_all'[Len(segments_all')].text

\* The first word of the closed group equals, ignoring case, the word that
\* ends last_text
RepeatsLastWord ==
    /\ Split(last_text) # <<>>
    /\ LowerStr(ClosedWords[1]) = LowerStr(Last(Split(last_text)))

\* The texts left of a group when some of its leading words are taken away
WordSuffixes(ws) == {Strip(Join(SubSeq(ws, k + 1, Len(ws)))) : k \in 0..Len(ws)}

\* C22: the text of an appended cue is the text of its word group without
\* some of its leading words, whole words only; and a group whose first word
\* is not the last word of last_text (ignoring case) is emitted unchanged.
C22_DedupCutsWholeWords ==
    [][/\ (OpenAIAppend /\ ClosesGroup) => AppendedText \in WordSuffixes(ClosedWords)
       /\ (ClosesGroup /\ ~RepeatsLastWord /\ ClosedText # <<>>) =>
            /\ OpenAIAppend
            /\ AppendedText = ClosedText]_vars

----------------------------------------------------------------------------
(* src/api/main.py: the requests to /generate and /upload, each running    *)
(* generate_captions, save_srt and burn_subtitles of                       *)
(* src/api/caption_whisper.py on files of the outputs directories.         *)

\* re.sub(r"[^\w\s-]", "", title)
RECURSIVE KeepTitleChars(_)
KeepTitleChars(t) ==
    IF t = <<>> THEN <<>>
    ELSE IF Head(t) \in WordChars \/ IsSpace(Head(t)) \/ Head(t) = "-"
         THEN <<Head(t)>> \o KeepTitleChars(Tail(t))
         ELSE KeepTitleChars(Tail(t))

\* re.sub(r"\s+", "_", title)
RECURSIVE SpacesToUnderscore(_)
SpacesToUnderscore(t) ==
    IF t = <<>> THEN <<>>
    ELSE IF IsSpace(Head(t))
         THEN IF Len(t) > 1 /\ IsSpace(t[2])
              THEN SpacesToUnderscore(Tail(t))
              ELSE <<"_">> \o SpacesToUnderscore(Tail(t))
         ELSE <<Head(t)>> \o SpacesToUnderscore(Tail(t))

\* title.strip("_")
RECURSIVE StripUnderscores(_)
StripUnderscores(t) ==
    IF t = <<>> THEN <<>>
    ELSE IF Head(t) = "_" THEN StripUnderscores(Tail(t))
    ELSE IF t[Len(t)] = "_" THEN StripUnderscores(SubSeq(t, 1, Len(t) - 1))
    ELSE t

\* clean_title
CleanTitle(title) == StripUnderscores(SpacesToUnderscore(KeepTitleChars(title)))

\* Path(name).stem: the name without its last suffix
PathStem(name) ==
    LET dots == {i \in 2..(Len(name) - 1) : name[i] = "."}
    IN  IF dots = {} THEN name ELSE SubSeq(name, 1, SetMax(dots) - 1)

\* The titles yt-dlp reports and the names of the uploaded files
Titles == {Chars("AI") \o <<"!">>, Chars("AI") \o <<"?">>, Chars("so")}
FileNames == {Chars("AI") \o <<".", "m", "p", "4">>, Chars("so") \o <<".", "m", "p", "4">>}

\* What the Whisper model hears in the two videos
Transcripts ==
    { << [start |-> 0, end |-> 2000, text |-> SegText(n)] >> : n \in {1, 2} }

\* generate_captions of src/api/caption_whisper.py as a function of the
\* Whisper result: the loops over segments and over groups of three words
RECURSIVE LocalAlone(_, _, _, _, _)
LocalAlone(v, segs, s, w, sofar) ==
    IF s > Len(segs) THEN {FinalPass(v, sofar)}
    ELSE LET words == SegWords(segs[s])
         IN  IF words = <<>> THEN LocalAlone(v, segs, s + 1, 0, sofar)
             ELSE UNION { LocalAlone(v, segs,
                                     IF w + CHUNK_LEN < Len(words) THEN s ELSE s + 1,
                                     IF w + CHUNK_LEN < Len(words) THEN w + CHUNK_LEN ELSE 0,
                                     Append(sofar, c)) :
                            c \in GroupCues(v, segs[s], words, w, sofar) }

\* The fold and the steps of a local run agree
LocalAloneIsTheRun ==
    (Returned /\ variant \in LocalVariants) =>
        micro_segments \in LocalAlone(variant, segments, 1, 0, <<>>)

\* OUTPUTS_DIR: BASE_DIR / "outputs" in caption_whisper.py, with BASE_DIR the
\* parent of the api directory; Path("outputs"), relative to the working
\* directory, in main.py
OutputsDir(kind) ==
    IF kind = "generate" \/ cwd = "src" THEN "src/outputs" ELSE "src/api/outputs"

\* title (process_caption_video) and tmp_path.stem (upload_video)
Stem(rq) == IF rq.kind = "generate" THEN CleanTitle(rq.name) ELSE PathStem(rq.name)

\* srt_path = SRT_DIR / f"{title}.srt"
SrtPath(rq) == <<OutputsDir(rq.kind), "srt", Stem(rq) \o <<".", "s", "r", "t">> >>

\* out_video = VIDEOS_DIR / f"{title}_captioned.mp4"
VideoPath(rq) ==
    <<OutputsDir(rq.kind), "videos",
      Stem(rq) \o <<"_", "c", "a", "p", "t", "i", "o", "n", "e", "d", ".", "m", "p", "4">> >>

\* save_srt: one numbered item per cue
SrtItems(segs) ==
    [i \in 1..Len(segs) |-> [index |-> i, start |-> segs[i].start,
                             end |-> segs[i].end, text |-> segs[i].text]]

NoFile == <<"no file">>

\* A file of a directory, NoFile if it does not exist
ReadFile(dir, path) == IF path \in DOMAIN dir THEN dir[path] ELSE NoFile

\* The directory after `path` is written, what was there being replaced
WriteFile(dir, path, content) ==
    [p \in DOMAIN dir \cup {path} |-> IF p = path THEN content ELSE dir[p]]

\* A request as it arrives
NewRequest(kind, name, transcript) ==
    [kind |-> kind, name |-> name, transcript |-> transcript, pc |-> "start",
     segments |-> <<>>, burned |-> NoFile, returned |-> NoFile]

RequestInputs ==
    {NewRequest("generate", t, tr) : t \in Titles, tr \in Transcripts}
    \cup {NewRequest("upload", f, tr) : f \in FileNames, tr \in Transcripts}

\* upload_video is `async def`: from its first statement after the await to
\* its return it holds the event loop; generate is `def` and runs in a
\* thread of the pool
MayStep(r) == requests[r].kind = "upload" => event_loop \in {0, r}

\* The variables of the runs of generate_captions taken one by one
runVars == <<inputVars, pc, localVars, openaiVars, helperVars, _client, parked>>

\* segments = generate_captions(str(audio_path))
ReqGenerate(r) ==
    /\ requests[r].pc = "start"
    /\ MayStep(r)
    /\ \E segs \in LocalAlone("whisper", requests[r].transcript, 1, 0, <<>>) :
          requests' = [requests EXCEPT ![r].segments = segs, ![r].pc = "generated"]
    /\ event_loop' = IF requests[r].kind = "upload" THEN r ELSE event_loop
    /\ UNCHANGED <<srt_files, video_files, cwd, runVars>>

\* save_srt(segments, srt_path)
ReqSaveSrt(r) ==
    /\ requests[r].pc = "generated"
    /\ MayStep(r)
    /\ srt_files' = WriteFile(srt_files, SrtPath(requests[r]), SrtItems(requests[r].segments))
    /\ requests' = [requests EXCEPT ![r].pc = "saved"]
    /\ event_loop' = IF requests[r].kind = "upload" THEN r ELSE event_loop
    /\ UNCHANGED <<video_files, cwd, runVars>>

\* What ffmpeg writes: the video of the request with the items that the
\* file at srt_path holds when ffmpeg reads it
Burnt(r) == [video |-> r, subtitles |-> ReadFile(srt_files, SrtPath(requests[r]))]

\* burn_subtitles(video_path, srt_path, out_video, alignment)
ReqBurn(r) ==
    /\ requests[r].pc = "saved"
    /\ MayStep(r)
    /\ video_files' = WriteFile(video_files, VideoPath(requests[r]), Burnt(r))
    /\ requests' = [requests EXCEPT ![r].pc = "burned", ![r].burned = Burnt(r)]
    /\ event_loop' = IF requests[r].kind = "upload" THEN r ELSE event_loop
    /\ UNCHANGED <<srt_files, cwd, runVars>>

\* The wait for the output and the return: the response names out_path,
\* a file that holds what was last written there
ReqReturn(r) ==
    /\ requests[r].pc = "burned"
    /\ MayStep(r)
    /\ requests' = [requests EXCEPT ![r].pc = "returned",
                                    ![r].returned = ReadFile(video_files, VideoPath(requests[r]))]
    /\ event_loop' = IF requests[r].kind = "upload" THEN 0 ELSE event_loop
    /\ UNCHANGED <<srt_files, video_files, cwd, runVars>>

InitServer ==
    /\ requests \in [1..2 -> RequestInputs]
    /\ srt_files = <<>>
    /\ video_files = <<>>
    /\ event_loop = 0
    /\ cwd \in {"src", "src/api"}
    /\ variant = "whisper"
    /\ pc = "serve"
    /\ IdleRun
    /\ IdleHelper
    /\ _client = NoClient
    /\ parked = NoRun

NextServer ==
    \/ \E r \in 1..2 : ReqGenerate(r)
    \/ \E r \in 1..2 : ReqSaveSrt(r)
    \/ \E r \in 1..2 : ReqBurn(r)
    \/ \E r \in 1..2 : ReqReturn(r)

SpecServer == InitServer /\ [][NextServer]_vars

\* C21: under every interleaving of two requests, the subtitles burned into
\* the output video of a request are the cues that request generated, and
\* the output video the request returns is the one it burned, whatever the
\* titles and file names of the two requests
C21_RequestsKeepTheirFiles ==
    \A r \in DOMAIN requests :
        /\ requests[r].pc \in {"burned", "returned"} =>
               requests[r].burned = [video |-> r, subtitles |-> SrtItems(requests[r].segments)]
        /\ requests[r].pc = "returned" => requests[r].returned = requests[r].burned

====
